---- MODULE Spec2Model ----
(***************************************************************************)
(* Data acquisition and caching of the weather dashboard (src/app.py):     *)
(* get_weather_data, cleanup_old_data_files, the module-level load-or-fetch *)
(* and the two Dash callbacks update_dashboard and update_hourly_graphs.     *)
(* Spec serves one request at a time while the days pass; SpecThreads runs  *)
(* the two callbacks in concurrent threads, as the development server does; *)
(* SpecSweep runs cleanup_old_data_files on directories of foreign files.   *)
(***************************************************************************)
EXTENDS Integers, Sequences, FiniteSets, TLC

\* ------------------------------------------------------------------ bounds
\* Calendar days the clock can reach: 0 .. MaxDay.
MaxDay == 1

\* retry(cache_session, retries=5, ...): retries allowed after the first request.
retries == 5

\* Files a directory holds when a sweep of it is examined on its own.
MaxFiles == 3

\* Rows of a provider series: (TimeEnd - Time) / Interval is MaxRows.
MaxRows == 2

\* range(31, 0, -1) of the dummy dates: the days before today.
dummy_past_days == 31

\* range(7) of the dummy dates: today and the days after it.
dummy_future_days == 7

Days == 0 .. MaxDay

\* The main thread (module import) and one worker thread per callback.
Procs == {"main", "dashboard", "hourly"}

Callbacks == {"dashboard", "hourly"}

\* unit_system is an unchecked string: the two radio values and any other one.
UnitSystems == {"imperial", "metric", "kelvin"}

\* Raw provider values, in thousandths: 20.455.
Payloads == {20455}

\* One series of a provider response: Time(), TimeEnd(), Interval() and the
\* length of each ValuesAsNumpy() array.
Series ==
    {[Time |-> 0, TimeEnd |-> MaxRows, Interval |-> 1, Values |-> n] :
        n \in (MaxRows - 1) .. MaxRows}

\* responses[0]: the daily and the hourly series and the raw value they carry.
Responses == [daily : Series, hourly : Series, value : Payloads]

\* No response received (line 76 not passed).
NoResponse == [daily |-> <<>>, hourly |-> <<>>, value |-> 0]

\* A local name no assignment has bound yet.
Unbound == [src |-> "unbound", gran |-> "none", val |-> 0, rows |-> "none", units |-> <<>>]

\* No date assigned yet (before line 219, outside get_weather_data).
NoDate == 0 - 1

VARIABLES
    now,                \* the calendar date date.today() / datetime.now() returns
    today,              \* module global `today` (line 219)
    files,              \* the working directory: file name -> content
    pc,                 \* position of each thread
    unit_system,        \* argument unit_system of the running request
    gwd_today,          \* local `today` of get_weather_data (line 40)
    daily_dataframe,    \* daily_dataframe of the running request
    hourly_dataframe,   \* hourly_dataframe of the running request
    attempts,           \* requests the retry session has sent for the running call
    exc,                \* exception that ended the request
    dates,              \* local `dates` (line 144), until the dummy frame is saved
    response,           \* local `response` (line 77), until the frames are saved
    sweeps,             \* runs of cleanup_old_data_files in the running request
    deleted             \* files reported "Deleted old file" by the last sweep

vars == <<now, today, files, pc, unit_system, gwd_today, daily_dataframe,
          hourly_dataframe, attempts, exc, dates, response, sweeps, deleted>>

\* ------------------------------------------------------------ dates, names
\* str(date): ISO text <<year, month, day>>; day 0 is 2024-12-31.
isoformat(d) == IF d = 0 THEN <<2024, 12, 31>> ELSE <<2025, 1, d>>

\* datetime.strptime(text, "%Y-%m-%d").date()
strptime(s) == IF s[1] = 2024 THEN s[3] - 31 ELSE s[3]

\* f"{unit_system}_daily_data_{today}.csv", split at "_", extension dropped.
CsvName(unit, gran, d) == <<unit, gran, "data", isoformat(d)>>

\* f"daily_data_{today}.csv" of the module-level check, which has no unit prefix.
BareCsvName(gran, d) == <<gran, "data", isoformat(d)>>

\* os.path.exists
exists(name) == name \in DOMAIN files

\* ------------------------------------------------------------ unit profile
\* A profile that asks for celsius whatever the unit system.
temp_unit_celsius(unit) == "celsius"

\* lines 44-46
temp_unit(unit) == IF unit = "imperial" THEN "fahrenheit" ELSE "celsius"

wind_unit(unit) == IF unit = "imperial" THEN "mph" ELSE "kmh"

precip_unit(unit) == IF unit = "imperial" THEN "inch" ELSE "mm"

\* ------------------------------------------------------- frames and files
\* np.round(x, 2) on a value in thousandths: to the nearest hundredth, ties to even.
np_round(x) ==
    LET q == x \div 10
        r == x % 10
    IN  IF r < 5 THEN q * 10
        ELSE IF r > 5 THEN (q + 1) * 10
        ELSE IF q % 2 = 0 THEN q * 10 ELSE (q + 1) * 10

\* The daily frame decoded from a provider response carrying raw value v.
ApiDaily(unit, v) ==
    [src |-> "api", gran |-> "daily", val |-> np_round(v), rows |-> "all",
     units |-> <<temp_unit(unit), wind_unit(unit), precip_unit(unit)>>]

\* The hourly frame: temperature_2m is stored unrounded.
ApiHourly(unit, v) ==
    [src |-> "api", gran |-> "hourly", val |-> v, rows |-> "all",
     units |-> <<temp_unit(unit), wind_unit(unit), precip_unit(unit)>>]

\* Bounds of np.random.uniform for temperature_2m_max, in thousandths.
temp_max_range(unit) ==
    IF unit = "imperial" THEN <<60000, 90000>> ELSE <<15000, 32000>>

\* The dummy daily frame of the except branch, with sampled value v.
DummyDaily(unit, v) ==
    [src |-> "synth", gran |-> "daily", val |-> v, rows |-> "all",
     units |-> <<temp_unit(unit), wind_unit(unit), precip_unit(unit)>>]

\* Text of a number in a CSV cell: integer part and the three fraction digits.
FormatCell(v) == <<v \div 1000, (v % 1000) \div 100, (v % 100) \div 10, v % 10>>

ParseCell(t) == t[1] * 1000 + t[2] * 100 + t[3] * 10 + t[4]

\* DataFrame.to_csv: the text of a completely written file. `locked` is the
\* file system's part: whether os.remove is refused on the file.
to_csv(df) ==
    [src |-> df.src, gran |-> df.gran, units |-> df.units,
     text |-> FormatCell(df.val), complete |-> TRUE, locked |-> FALSE]

\* open(name, "w") before anything is flushed, and a file whose writer has not
\* closed it yet: only a leading part of the rows is on disk.
Truncated(df) ==
    [src |-> df.src, gran |-> df.gran, units |-> df.units,
     text |-> FormatCell(df.val), complete |-> FALSE, locked |-> FALSE]

\* pd.read_csv of a file's content; a file cut short yields only leading rows.
read_csv(c) ==
    [src |-> c.src, gran |-> c.gran, val |-> ParseCell(c.text),
     rows |-> IF c.complete THEN "all" ELSE "some", units |-> c.units]

\* What pd.read_csv(name) can give: the frame, or the exception it raises
\* (no such file; a file that holds no line yet), as a frame-shaped value.
Raises(e) == [src |-> e, gran |-> "none", val |-> 0, rows |-> "none", units |-> <<>>]

Exceptions == {"FileNotFoundError", "EmptyDataError", "UnboundLocalError"}

Put(f, name, c) == [n \in DOMAIN f \cup {name} |-> IF n = name THEN c ELSE f[n]]

Remove(f, names) == [n \in DOMAIN f \ names |-> f[n]]

\* --------------------------------------------------------------- helpers
Set(f, p, v) == [f EXCEPT ![p] = v]

\* Values np.random.uniform(lo, hi) can return, cut down to the low end.
DummyValues(unit) == {temp_max_range(unit)[1]}

\* Where the caller of get_weather_data continues after its return:
\* line 233 and line 695 call cleanup_old_data_files, line 644 does not.
AfterFetch(p) == IF p = "hourly" THEN "done" ELSE "cleanup"

\* Where an exception that leaves the request ends: the import of the module
\* fails (the process exits), a callback answers with an error.
Raised(p) == IF p = "main" THEN "crashed" ELSE "error"

\* A session that counts the first request among the `retries`.
attempts_without_first == retries

\* Requests the retry session sends before it gives up: the first one and
\* `retries` more (urllib3 Retry(total=retries)).
total_attempts == retries + 1

\* -------------------------------------------------------------------- Init
Init ==
    /\ now = 0
    /\ today = NoDate
    /\ files = <<>>
    /\ pc = [p \in Procs |-> IF p = "main" THEN "start" ELSE "idle"]
    /\ unit_system = [p \in Procs |-> "imperial"]
    /\ gwd_today = [p \in Procs |-> NoDate]
    /\ daily_dataframe = [p \in Procs |-> Unbound]
    /\ hourly_dataframe = [p \in Procs |-> Unbound]
    /\ attempts = [p \in Procs |-> 0]
    /\ exc = [p \in Procs |-> "none"]
    /\ dates = [p \in Procs |-> <<>>]
    /\ response = [p \in Procs |-> NoResponse]
    /\ sweeps = [p \in Procs |-> 0]
    /\ deleted = {}

\* ------------------------------------------------ module level, lines 219-233
Startup ==
    /\ pc["main"] = "start"
    /\ today' = now
    /\ IF exists(BareCsvName("daily", now)) /\ exists(BareCsvName("hourly", now))
       THEN /\ daily_dataframe' =
                 Set(daily_dataframe, "main", read_csv(files[BareCsvName("daily", now)]))
            /\ hourly_dataframe' =
                 Set(hourly_dataframe, "main", read_csv(files[BareCsvName("hourly", now)]))
            /\ pc' = Set(pc, "main", "serving")
       ELSE /\ pc' = Set(pc, "main", "gwd_enter")
            /\ UNCHANGED <<daily_dataframe, hourly_dataframe>>
    /\ unit_system' = Set(unit_system, "main", "imperial")
    /\ UNCHANGED <<dates, response>>
    /\ UNCHANGED <<now, files, gwd_today, attempts, exc, sweeps, deleted>>

\* ------------------------------------------------ get_weather_data, 27-182
\* line 40: today = date.today()
GwdEnter(p) ==
    /\ pc[p] = "gwd_enter"
    /\ gwd_today' = Set(gwd_today, p, now)
    /\ attempts' = Set(attempts, p, 0)
    /\ pc' = Set(pc, p, "gwd_call")
    /\ UNCHANGED <<dates, response>>
    /\ UNCHANGED <<now, today, files, unit_system, daily_dataframe,
                   hourly_dataframe, exc, sweeps, deleted>>

\* pd.date_range(start, end, freq, inclusive="left"): the number of rows.
date_range(s) == (s.TimeEnd - s.Time) \div s.Interval

\* A frame constructor that cuts the index down to a shorter value array.
DataFrameShortest(s) == s.Values <= date_range(s)

\* pd.DataFrame(data=...), lines 123 and 135: the "date" column and the value
\* arrays must have the same length, else it raises ValueError.
DataFrame(s) == s.Values = date_range(s)

\* line 76: a request of the retry session is answered; the session call is
\* over and its count of requests with it.
GwdAttemptOk(p) ==
    /\ pc[p] = "gwd_call"
    /\ attempts[p] < total_attempts
    /\ attempts' = Set(attempts, p, 0)
    /\ pc' = Set(pc, p, "decode")
    /\ UNCHANGED <<dates, response>>
    /\ UNCHANGED <<now, today, files, unit_system, gwd_today, daily_dataframe,
                   hourly_dataframe, exc, sweeps, deleted>>

\* lines 77-135: response = responses[0]; both series are decoded into frames.
GwdDecode(p) ==
    /\ pc[p] = "decode"
    /\ \E r \in Responses :
        /\ DataFrame(r.daily) /\ DataFrame(r.hourly)
        /\ response' = Set(response, p, r)
        /\ daily_dataframe' = Set(daily_dataframe, p, ApiDaily(unit_system[p], r.value))
        /\ hourly_dataframe' = Set(hourly_dataframe, p, ApiHourly(unit_system[p], r.value))
    /\ pc' = Set(pc, p, "hourly_open")
    /\ UNCHANGED dates
    /\ UNCHANGED <<now, today, files, unit_system, gwd_today, attempts, exc,
                   sweeps, deleted>>

\* range(start, stop, -1)
range_down_inclusive(start, stop) == [i \in 1 .. (start - stop + 1) |-> start + 1 - i]

\* range(start, stop, -1): start, start - 1, ..., stop + 1
range_down(start, stop) == [i \in 1 .. (start - stop) |-> start + 1 - i]

\* range(stop): 0, 1, ..., stop - 1
range(stop) == [i \in 1 .. stop |-> i - 1]

\* lines 144-146: [today - timedelta(days=i) for i in range(31, 0, -1)]
\*              + [today + timedelta(days=i) for i in range(7)]
dummy_dates(t) ==
    LET past == range_down(dummy_past_days, 0)
        future == range(dummy_future_days)
    IN  [i \in 1 .. Len(past) |-> t - past[i]] \o [i \in 1 .. Len(future) |-> t + future[i]]

\* lines 141-177, the except branch: the dates and the dummy daily frame, of
\* which every column has len(dates) values.
Except(p) ==
    /\ dates' = Set(dates, p, dummy_dates(gwd_today[p]))
    /\ \E v \in DummyValues(unit_system[p]) :
         daily_dataframe' = Set(daily_dataframe, p, DummyDaily(unit_system[p], v))
    /\ pc' = Set(pc, p, "dummy_open")

\* line 76: a request fails; the session sleeps and sends it again, or, with
\* the retries used up, raises into the except branch.
GwdAttemptFail(p) ==
    /\ pc[p] = "gwd_call"
    /\ attempts[p] < total_attempts
    /\ attempts' = Set(attempts, p, attempts[p] + 1)
    /\ IF attempts[p] + 1 < total_attempts
       THEN UNCHANGED <<pc, daily_dataframe, dates>>
       ELSE Except(p)
    /\ UNCHANGED response
    /\ UNCHANGED <<now, today, files, unit_system, gwd_today, hourly_dataframe,
                   exc, sweeps, deleted>>

\* lines 77-135: building the daily frame (line 123) or the hourly frame
\* (line 135) from the response raises; the except branch replaces
\* whatever daily_dataframe was bound to, hourly_dataframe stays unbound.
GwdDecodeFail(p) ==
    /\ pc[p] = "decode"
    /\ \E r \in Responses :
        /\ ~(DataFrame(r.daily) /\ DataFrame(r.hourly))
        /\ response' = Set(response, p, r)
    /\ Except(p)
    /\ UNCHANGED <<now, today, files, unit_system, gwd_today, hourly_dataframe,
                   attempts, exc, sweeps, deleted>>

\* line 138, hourly_dataframe.to_csv: the file is opened for writing. The
\* response is not used after line 134.
GwdHourlyOpen(p) ==
    /\ pc[p] = "hourly_open"
    /\ files' = Put(files, CsvName(unit_system[p], "hourly", gwd_today[p]),
                    Truncated(hourly_dataframe[p]))
    /\ response' = Set(response, p, NoResponse)
    /\ pc' = Set(pc, p, "hourly_close")
    /\ UNCHANGED dates
    /\ UNCHANGED <<now, today, unit_system, gwd_today, daily_dataframe,
                   hourly_dataframe, attempts, exc, sweeps, deleted>>

\* A writer's close: the rows are on disk under the name, unless the name was
\* unlinked while the file was open.
Closed(name, df) == IF exists(name) THEN Put(files, name, to_csv(df)) ELSE files

\* line 138: the hourly file is written out and closed.
GwdHourlyClose(p) ==
    /\ pc[p] = "hourly_close"
    /\ files' = Closed(CsvName(unit_system[p], "hourly", gwd_today[p]),
                       hourly_dataframe[p])
    /\ pc' = Set(pc, p, "daily_open")
    /\ UNCHANGED <<dates, response>>
    /\ UNCHANGED <<now, today, unit_system, gwd_today, daily_dataframe,
                   hourly_dataframe, attempts, exc, sweeps, deleted>>

\* line 139, daily_dataframe.to_csv: the file is opened for writing.
GwdDailyOpen(p) ==
    /\ pc[p] = "daily_open"
    /\ files' = Put(files, CsvName(unit_system[p], "daily", gwd_today[p]),
                    Truncated(daily_dataframe[p]))
    /\ pc' = Set(pc, p, "daily_close")
    /\ UNCHANGED <<dates, response>>
    /\ UNCHANGED <<now, today, unit_system, gwd_today, daily_dataframe,
                   hourly_dataframe, attempts, exc, sweeps, deleted>>

\* line 139: the daily file is written out and closed.
GwdDailyClose(p) ==
    /\ pc[p] = "daily_close"
    /\ files' = Closed(CsvName(unit_system[p], "daily", gwd_today[p]),
                       daily_dataframe[p])
    /\ pc' = Set(pc, p, "gwd_return")
    /\ UNCHANGED <<dates, response>>
    /\ UNCHANGED <<now, today, unit_system, gwd_today, daily_dataframe,
                   hourly_dataframe, attempts, exc, sweeps, deleted>>

\* A fallback that saves under the name without the unit prefix.
dummy_file_bare(p) == BareCsvName("daily", gwd_today[p])

\* line 180: f"{unit_system}_daily_data_{today}.csv"
dummy_file(p) == CsvName(unit_system[p], "daily", gwd_today[p])

\* line 180, the dummy frame's to_csv: the file is opened for writing. The
\* session's count, the response and the dates are not used from here on.
GwdDummyOpen(p) ==
    /\ pc[p] = "dummy_open"
    /\ files' = Put(files, dummy_file(p), Truncated(daily_dataframe[p]))
    /\ attempts' = Set(attempts, p, 0)
    /\ response' = Set(response, p, NoResponse)
    /\ dates' = Set(dates, p, <<>>)
    /\ pc' = Set(pc, p, "dummy_close")
    /\ UNCHANGED <<now, today, unit_system, gwd_today, daily_dataframe,
                   hourly_dataframe, exc, sweeps, deleted>>

\* line 180: the dummy daily file is written out and closed.
GwdDummyClose(p) ==
    /\ pc[p] = "dummy_close"
    /\ files' = Closed(dummy_file(p), daily_dataframe[p])
    /\ pc' = Set(pc, p, "gwd_return")
    /\ UNCHANGED <<dates, response>>
    /\ UNCHANGED <<now, today, unit_system, gwd_today, daily_dataframe,
                   hourly_dataframe, attempts, exc, sweeps, deleted>>

\* line 182: return daily_dataframe, hourly_dataframe. Reading a local that no
\* assignment has bound raises UnboundLocalError.
GwdReturn(p) ==
    /\ pc[p] = "gwd_return"
    /\ IF hourly_dataframe[p] = Unbound \/ daily_dataframe[p] = Unbound
       THEN /\ exc' = Set(exc, p, "UnboundLocalError")
            /\ pc' = Set(pc, p, Raised(p))
       ELSE /\ pc' = Set(pc, p, AfterFetch(p))
            /\ UNCHANGED exc
    /\ UNCHANGED <<dates, response>>
    /\ UNCHANGED <<now, today, files, unit_system, gwd_today, daily_dataframe,
                   hourly_dataframe, attempts, sweeps, deleted>>

\* ------------------------------------------- cleanup_old_data_files, 186-215
\* datetime.strptime(file.split("_")[3].split(".")[0], "%Y-%m-%d").date()
file_date(name) == strptime(name[4])

\* A sweep that also takes the files dated on the day it runs.
is_old_or_today(name, d) == file_date(name) <= d

\* lines 198 and 211: if file_date < today
is_old(name, d) == file_date(name) < d

\* glob.glob(f"{unit}_daily_data_*.csv") and glob.glob(f"{unit}_hourly_data_*.csv")
glob(unit, gran) ==
    {n \in DOMAIN files : Len(n) = 4 /\ n[1] = unit /\ n[2] = gran /\ n[3] = "data"}

\* strptime(text, "%Y-%m-%d") raises ValueError unless the text is a date.
parses(s) == Len(s) = 3 /\ s[2] \in 1 .. 12 /\ s[3] \in 1 .. 31

\* os.remove(file) raises PermissionError on a file it is refused on.
removable(name) == ~files[name].locked

\* A glob result as the list the for loop walks.
RECURSIVE listing(_)
listing(S) ==
    IF S = {} THEN <<>>
    ELSE LET n == CHOOSE n \in S : TRUE IN <<n>> \o listing(S \ {n})

RECURSIVE loop(_, _)
\* A handler around the loops: the first error ends the sweep.
except_outside_loop(rest, d) == {}

\* lines 201-202 and 214-215, except Exception inside the loop body: the
\* error is printed and the loop goes on with the next file.
except_Exception(rest, d) == loop(rest, d)

\* lines 193-202 and 206-215, the loop bodies: the files of the list that
\* os.remove deletes.
loop(list, d) ==
    IF list = <<>> THEN {}
    ELSE LET file == Head(list)
         IN  IF ~parses(file[4]) THEN except_Exception(Tail(list), d)
             ELSE IF ~is_old(file, d) THEN loop(Tail(list), d)
             ELSE IF ~removable(file) THEN except_Exception(Tail(list), d)
             ELSE {file} \cup loop(Tail(list), d)

\* The files the sweep removes on date d: for unit in ['imperial', 'metric']
\* the daily files, then the hourly files.
Swept(d) ==
    loop(listing(glob("imperial", "daily")) \o listing(glob("imperial", "hourly"))
           \o listing(glob("metric", "daily")) \o listing(glob("metric", "hourly")), d)

cleanup_old_data_files(p) ==
    /\ pc[p] = "cleanup"
    /\ files' = Remove(files, Swept(now))
    /\ deleted' = Swept(now)
    /\ sweeps' = Set(sweeps, p, sweeps[p] + 1)
    /\ pc' = Set(pc, p, IF p = "main" THEN "serving" ELSE "done")
    /\ UNCHANGED <<dates, response>>
    /\ UNCHANGED <<now, today, unit_system, gwd_today, daily_dataframe,
                   hourly_dataframe, attempts, exc>>

\* ------------------------------------------------ update_dashboard, 685-701
\* line 692: the check that decides between fetching and loading.
update_dashboard(unit) ==
    /\ pc["main"] = "serving"
    /\ pc["dashboard"] = "idle"
    /\ unit_system' = Set(unit_system, "dashboard", unit)
    /\ pc' = Set(pc, "dashboard",
                 IF \/ ~exists(CsvName(unit, "daily", today))
                    \/ ~exists(CsvName(unit, "hourly", today))
                 THEN "gwd_enter" ELSE "load_daily")
    /\ deleted' = {}
    /\ UNCHANGED <<dates, response>>
    /\ UNCHANGED <<now, today, files, gwd_today, daily_dataframe,
                   hourly_dataframe, attempts, exc, sweeps>>

\* pd.read_csv(name) on the directory as it is.
read_results(name) ==
    IF ~exists(name) THEN {Raises("FileNotFoundError")}
    ELSE IF files[name].complete THEN {read_csv(files[name])}
    ELSE {read_csv(files[name]), Raises("EmptyDataError")}

\* line 698: daily_dataframe = pd.read_csv(...)
LoadDaily(p) ==
    /\ pc[p] = "load_daily"
    /\ \E r \in read_results(CsvName(unit_system[p], "daily", today)) :
        IF r.src \in Exceptions
        THEN /\ exc' = Set(exc, p, r.src)
             /\ pc' = Set(pc, p, Raised(p))
             /\ UNCHANGED daily_dataframe
        ELSE /\ daily_dataframe' = Set(daily_dataframe, p, r)
             /\ pc' = Set(pc, p, "load_hourly")
             /\ UNCHANGED exc
    /\ UNCHANGED <<dates, response>>
    /\ UNCHANGED <<now, today, files, unit_system, gwd_today, hourly_dataframe,
                   attempts, sweeps, deleted>>

\* A cache branch that runs the sweep where the fetch branch does.
AfterLoadSweep(p) == AfterFetch(p)

\* lines 647-648 and 700-701 end the else branch: the callback goes on to
\* build its figures.
AfterLoad(p) == "done"

\* lines 647 and 700: hourly_dataframe = pd.read_csv(...)
LoadHourly(p) ==
    /\ pc[p] = "load_hourly"
    /\ \E r \in read_results(CsvName(unit_system[p], "hourly", today)) :
        IF r.src \in Exceptions
        THEN /\ exc' = Set(exc, p, r.src)
             /\ pc' = Set(pc, p, Raised(p))
             /\ UNCHANGED hourly_dataframe
        ELSE /\ hourly_dataframe' = Set(hourly_dataframe, p, r)
             /\ pc' = Set(pc, p, AfterLoad(p))
             /\ UNCHANGED exc
    /\ UNCHANGED <<dates, response>>
    /\ UNCHANGED <<now, today, files, unit_system, gwd_today, daily_dataframe,
                   attempts, sweeps, deleted>>

\* -------------------------------------------- update_hourly_graphs, 625-648
\* line 642: the check that decides between fetching and loading.
update_hourly_graphs(unit) ==
    /\ pc["main"] = "serving"
    /\ pc["hourly"] = "idle"
    /\ unit_system' = Set(unit_system, "hourly", unit)
    /\ pc' = Set(pc, "hourly",
                 IF ~exists(CsvName(unit, "hourly", today))
                 THEN "gwd_enter" ELSE "load_hourly")
    /\ deleted' = {}
    /\ UNCHANGED <<dates, response>>
    /\ UNCHANGED <<now, today, files, gwd_today, daily_dataframe,
                   hourly_dataframe, attempts, exc, sweeps>>

\* The callback has answered (its figures or an error); its locals are gone.
Finish(p) ==
    /\ p \in Callbacks
    /\ pc[p] \in {"done", "error"}
    /\ pc' = Set(pc, p, "idle")
    /\ daily_dataframe' = Set(daily_dataframe, p, Unbound)
    /\ hourly_dataframe' = Set(hourly_dataframe, p, Unbound)
    /\ gwd_today' = Set(gwd_today, p, NoDate)
    /\ exc' = Set(exc, p, "none")
    /\ unit_system' = Set(unit_system, p, "imperial")
    /\ sweeps' = Set(sweeps, p, 0)
    /\ UNCHANGED <<dates, response>>
    /\ UNCHANGED <<now, today, files, attempts, deleted>>

\* ------------------------------------------------------------ environment
\* Midnight passes.
Tick ==
    /\ now < MaxDay
    /\ now' = now + 1
    /\ UNCHANGED <<dates, response>>
    /\ UNCHANGED <<today, files, pc, unit_system, gwd_today, daily_dataframe,
                   hourly_dataframe, attempts, exc, sweeps, deleted>>

\* The process is stopped between two requests, or has exited at import, and
\* python app.py runs again in the same directory.
Restart ==
    /\ pc["main"] \in {"serving", "crashed"}
    /\ \A p \in Callbacks : pc[p] = "idle"
    /\ today' = NoDate
    /\ pc' = [p \in Procs |-> IF p = "main" THEN "start" ELSE "idle"]
    /\ unit_system' = [p \in Procs |-> "imperial"]
    /\ gwd_today' = [p \in Procs |-> NoDate]
    /\ daily_dataframe' = [p \in Procs |-> Unbound]
    /\ hourly_dataframe' = [p \in Procs |-> Unbound]
    /\ attempts' = [p \in Procs |-> 0]
    /\ exc' = [p \in Procs |-> "none"]
    /\ dates' = [p \in Procs |-> <<>>]
    /\ response' = [p \in Procs |-> NoResponse]
    /\ sweeps' = [p \in Procs |-> 0]
    /\ deleted' = {}
    /\ UNCHANGED <<now, files>>

\* One request at a time: the single control thread the design assumes.
OneAtATime == \A q \in Callbacks : pc[q] = "idle"

\* The steps of a thread inside a request, and the environment.
Step ==
    \/ Startup
    \/ \E p \in Procs : GwdEnter(p)
    \/ \E p \in Procs : GwdAttemptOk(p)
    \/ \E p \in Procs : GwdDecode(p)
    \/ \E p \in Procs : GwdAttemptFail(p)
    \/ \E p \in Procs : GwdDecodeFail(p)
    \/ \E p \in Procs : GwdHourlyOpen(p)
    \/ \E p \in Procs : GwdHourlyClose(p)
    \/ \E p \in Procs : GwdDailyOpen(p)
    \/ \E p \in Procs : GwdDailyClose(p)
    \/ \E p \in Procs : GwdDummyOpen(p)
    \/ \E p \in Procs : GwdDummyClose(p)
    \/ \E p \in Procs : GwdReturn(p)
    \/ \E p \in Procs : cleanup_old_data_files(p)
    \/ \E p \in Procs : LoadDaily(p)
    \/ \E p \in Procs : LoadHourly(p)
    \/ \E p \in Procs : Finish(p)
    \/ Restart

\* Requests served one after the other, while the days pass.
Next ==
    \/ Step
    \/ \E unit \in UnitSystems : OneAtATime /\ update_dashboard(unit)
    \/ \E unit \in UnitSystems : OneAtATime /\ update_hourly_graphs(unit)
    \/ Tick

Spec == Init /\ [][Next]_vars

\* The two callbacks served by concurrent threads of the development server,
\* within one day.
NextThreads ==
    \/ Step
    \/ \E unit \in UnitSystems : update_dashboard(unit)
    \/ \E unit \in UnitSystems : update_hourly_graphs(unit)

SpecThreads == Init /\ [][NextThreads]_vars

\* ------------------------------------------------------------------ claims
\* The thread has made a fresh fetch in its running request.
\* ------------------------------------- cleanup_old_data_files on its own
\* "2025-13-01": a date part strptime rejects.
BadDateText == <<2025, 13, 1>>

\* Names the two glob patterns match: dated ones and one that is no date.
SweepNames ==
    {<<unit, gran, "data", text>> :
        unit \in {"imperial", "metric"}, gran \in {"daily", "hourly"},
        text \in {isoformat(d) : d \in Days} \cup {BadDateText}}

\* A file of an earlier run, as to_csv left it, deletable or not.
OldFile(name, locked) ==
    [to_csv(IF name[2] = "daily" THEN ApiDaily(name[1], 0) ELSE ApiHourly(name[1], 0))
        EXCEPT !.locked = locked]

\* cleanup_old_data_files is called (line 233) in a directory that holds up
\* to MaxFiles such files, some of which os.remove is refused on.
InitSweep ==
    /\ now \in Days
    /\ today = now
    /\ \E D \in SUBSET SweepNames :
        /\ Cardinality(D) <= MaxFiles
        /\ \E L \in SUBSET D : files = [n \in D |-> OldFile(n, n \in L)]
    /\ pc = [p \in Procs |-> IF p = "main" THEN "cleanup" ELSE "idle"]
    /\ unit_system = [p \in Procs |-> "imperial"]
    /\ gwd_today = [p \in Procs |-> NoDate]
    /\ daily_dataframe = [p \in Procs |-> Unbound]
    /\ hourly_dataframe = [p \in Procs |-> Unbound]
    /\ attempts = [p \in Procs |-> 0]
    /\ exc = [p \in Procs |-> "none"]
    /\ dates = [p \in Procs |-> <<>>]
    /\ response = [p \in Procs |-> NoResponse]
    /\ sweeps = [p \in Procs |-> 0]
    /\ deleted = {}

NextSweep == \E p \in Procs : cleanup_old_data_files(p)

SpecSweep == InitSweep /\ [][NextSweep]_vars

\* ----------------------------------------------------------------- claims
Fetching(p) == gwd_today[p] # NoDate

\* Both entries of (d, unit) are on disk, completely written from a response.
SavedPair(unit, d) ==
    /\ exists(CsvName(unit, "daily", d))
    /\ exists(CsvName(unit, "hourly", d))
    /\ files[CsvName(unit, "daily", d)].complete
    /\ files[CsvName(unit, "hourly", d)].complete
    /\ files[CsvName(unit, "daily", d)].src = "api"
    /\ files[CsvName(unit, "hourly", d)].src = "api"

\* C1: when the provider call fails, get_weather_data returns normally with
\* the synthetic daily records: neither startup nor a callback ends in an
\* error state after a fetch that fell back to the dummy frame.
C1_ProviderFailureReturnsNormally ==
    \A p \in Procs :
        (Fetching(p) /\ daily_dataframe[p].src = "synth")
            => pc[p] \notin {"crashed", "error"}

\* C2: after a successful fetch for unit system u both entries of (today, u)
\* exist and hold the fetched frames, a following update_dashboard(u) on the
\* same day takes the cache path, and what it loads equals what was saved.
C2_FetchThenCacheHit ==
    /\ \A p \in Procs :
        (pc[p] = "gwd_return" /\ hourly_dataframe[p] # Unbound) =>
            /\ exists(CsvName(unit_system[p], "daily", gwd_today[p]))
            /\ exists(CsvName(unit_system[p], "hourly", gwd_today[p]))
            /\ files[CsvName(unit_system[p], "daily", gwd_today[p])]
                 = to_csv(daily_dataframe[p])
            /\ files[CsvName(unit_system[p], "hourly", gwd_today[p])]
                 = to_csv(hourly_dataframe[p])
    /\ \A unit \in UnitSystems :
        SavedPair(unit, now) =>
            ~(pc["dashboard"] = "gwd_enter" /\ unit_system["dashboard"] = unit)
    /\ (pc["dashboard"] = "done" /\ ~Fetching("dashboard")) =>
            /\ to_csv(daily_dataframe["dashboard"])
                 = files[CsvName(unit_system["dashboard"], "daily", today)]
            /\ to_csv(hourly_dataframe["dashboard"])
                 = files[CsvName(unit_system["dashboard"], "hourly", today)]

\* C3: at startup, with the same-day imperial entries written by an earlier
\* get_weather_data call on disk, the provider is not invoked: the main
\* thread does not enter get_weather_data.
C3_StartupUsesSameDayEntries ==
    pc["main"] = "gwd_enter" => ~SavedPair("imperial", today)

\* C4: a callback that takes the cache path loads an entry whose fetch_date
\* is the calendar date at the time of the request.
C4_CacheHitIsSameDay ==
    [][/\ \A unit \in UnitSystems :
            (update_dashboard(unit) /\ pc'["dashboard"] = "load_daily")
                => today = now
       /\ \A unit \in UnitSystems :
            (update_hourly_graphs(unit) /\ pc'["hourly"] = "load_hourly")
                => today = now]_vars

\* C5: no step removes a cache entry dated today or later: a file that
\* leaves the directory is dated strictly before the current date, and the
\* step that removes it is a run of cleanup_old_data_files.
C5_OnlyStaleEntriesAreDeleted ==
    [][\A n \in DOMAIN files :
          n \notin DOMAIN files' =>
              /\ file_date(n) < now
              /\ \E p \in Procs : pc[p] = "cleanup" /\ pc'[p] # "cleanup"]_vars

\* A sweep has deleted an entry and left one dated today in place.
C5_Witness ==
    /\ deleted # {}
    /\ \A n \in deleted : n \notin DOMAIN files
    /\ \E n \in DOMAIN files : file_date(n) = now

\* C6: when cleanup_old_data_files completes, no entry dated before the day
\* of the sweep remains, whatever unit system and granularity it is named for.
C6_SweepLeavesNoStaleEntry ==
    [][\A p \in Procs :
          cleanup_old_data_files(p) =>
              \A n \in DOMAIN files' : file_date(n) >= now]_vars

\* C7: a request that made a fresh fetch and finished has run
\* cleanup_old_data_files exactly once.
C7_OneSweepPerFreshFetch ==
    \A p \in Procs :
        (Fetching(p) /\ pc[p] \in {"done", "serving"}) => sweeps[p] = 1

C9_NoPartialRead ==
    \A p \in Procs :
        /\ daily_dataframe[p].rows # "some"
        /\ hourly_dataframe[p].rows # "some"
        /\ exc[p] # "EmptyDataError"

\* C10: the two callbacks never both execute get_weather_data for the same
\* unit system and day at the same time.
C10_OneFetchInFlight ==
    ~(/\ pc["dashboard"] = "gwd_call"
      /\ pc["hourly"] = "gwd_call"
      /\ unit_system["dashboard"] = unit_system["hourly"]
      /\ gwd_today["dashboard"] = gwd_today["hourly"])

\* C11: after the fallback of a failed provider call, the daily entry of
\* (today, unit_system) exists and holds the synthetic records, whatever was
\* stored under that key before.
C11_FallbackIsSaved ==
    \A p \in Procs :
        (Fetching(p) /\ daily_dataframe[p].src = "synth"
                     /\ pc[p] \in {"gwd_return", "crashed", "error"}) =>
            /\ exists(CsvName(unit_system[p], "daily", gwd_today[p]))
            /\ files[CsvName(unit_system[p], "daily", gwd_today[p])]
                 = to_csv(daily_dataframe[p])

\* A fallback has replaced the daily entry of a key whose hourly entry, from
\* an earlier successful fetch, is still on disk.
C11_Witness ==
    \E p \in Procs :
        /\ pc[p] = "gwd_return"
        /\ daily_dataframe[p].src = "synth"
        /\ exists(CsvName(unit_system[p], "hourly", gwd_today[p]))
        /\ files[CsvName(unit_system[p], "daily", gwd_today[p])].src = "synth"

\* C12: the synthetic fallback produces exactly one record per calendar day
\* of [today - 31, today + 7): 38 dates for either unit system, the first
\* today - 31, the last today + 6, each one day after the one before it.
C12_OneRecordPerDayOfWindow ==
    \A p \in Procs :
        (Fetching(p) /\ pc[p] = "dummy_open" /\ daily_dataframe[p].src = "synth") =>
            /\ Len(dates[p]) = 38
            /\ dates[p][1] = gwd_today[p] - 31
            /\ dates[p][38] = gwd_today[p] + 6
            /\ \A i \in 1 .. 37 : dates[p][i + 1] = dates[p][i] + 1

\* A metric fallback on the last day of the clock has built its dates.
C12_Witness ==
    \E p \in Procs :
        /\ pc[p] = "dummy_open"
        /\ daily_dataframe[p].src = "synth"
        /\ unit_system[p] = "metric"
        /\ gwd_today[p] = MaxDay
        /\ Len(dates[p]) > 0

\* C13: a request whose unit_system is neither "imperial" nor "metric" is
\* rejected: get_weather_data does not call the provider for it and no cache
\* entry is written under it.
C13_InvalidUnitIsRejected ==
    /\ \A p \in Procs :
        unit_system[p] \notin {"imperial", "metric"} =>
            pc[p] \notin {"gwd_call", "decode", "hourly_open", "hourly_close",
                          "daily_open", "daily_close", "dummy_open", "dummy_close"}
    /\ \A n \in DOMAIN files : n[1] \in {"imperial", "metric"}

\* C14: in cleanup_old_data_files an entry whose date part cannot be parsed
\* or whose deletion raises is skipped: the sweep still deletes every other
\* stale entry of both unit systems and both granularities and returns
\* normally.
C14_SweepSkipsFailingEntries ==
    [][\A p \in Procs :
          cleanup_old_data_files(p) =>
              /\ pc'[p] \in {"serving", "done"}
              /\ exc'[p] = "none"
              /\ \A n \in DOMAIN files :
                    (/\ n[1] \in {"imperial", "metric"}
                     /\ n[2] \in {"daily", "hourly"}
                     /\ n[4] # BadDateText
                     /\ strptime(n[4]) < now
                     /\ ~files[n].locked) => n \notin DOMAIN files']_vars

\* A sweep has returned after deleting a stale entry, with an entry that has
\* no date and a stale entry it was refused on still in the directory.
C14_Witness ==
    /\ pc["main"] = "serving"
    /\ deleted # {}
    /\ \E n \in DOMAIN files : n[4] = BadDateText
    /\ \E n \in DOMAIN files :
          n[4] # BadDateText /\ strptime(n[4]) < now /\ files[n].locked

\* C15: when the daily or the hourly series of the response has a value array
\* whose length differs from the rows its start, end and interval imply, the
\* fetch takes the fallback and persists nothing derived from the provider:
\* no file of the success path is written and no frame holds provider data.
C15_InconsistentPayloadNotPersisted ==
    \A p \in Procs :
        (/\ response[p] # NoResponse
         /\ \/ response[p].daily.Values
                 # (response[p].daily.TimeEnd - response[p].daily.Time)
                     \div response[p].daily.Interval
            \/ response[p].hourly.Values
                 # (response[p].hourly.TimeEnd - response[p].hourly.Time)
                     \div response[p].hourly.Interval) =>
            /\ pc[p] = "dummy_open"
            /\ daily_dataframe[p].src = "synth"
            /\ hourly_dataframe[p] = Unbound

\* A response whose daily series decodes and whose hourly series is one value
\* short has sent the fetch into the fallback.
C15_Witness ==
    \E p \in Procs :
        /\ pc[p] = "dummy_open"
        /\ response[p] # NoResponse
        /\ response[p].daily.Values = MaxRows
        /\ response[p].hourly.Values < MaxRows

\* C16: on a cache hit update_dashboard and update_hourly_graphs only read:
\* no step of the request changes the set of cache entries or their
\* contents, calls the provider or runs cleanup_old_data_files.
C16_CacheHitOnlyReads ==
    [][\A p \in Callbacks :
          (/\ pc'[p] # pc[p]
           /\ \/ pc[p] \in {"load_daily", "load_hourly"}
              \/ pc[p] = "idle" /\ pc'[p] \in {"load_daily", "load_hourly"}) =>
              /\ files' = files
              /\ pc'[p] \in {"load_daily", "load_hourly", "done", "error"}
              /\ gwd_today'[p] = NoDate
              /\ attempts'[p] = 0
              /\ sweeps'[p] = 0]_vars

\* update_dashboard has answered from the cache with both frames loaded.
C16_Witness ==
    /\ pc["dashboard"] = "done"
    /\ ~Fetching("dashboard")
    /\ daily_dataframe["dashboard"].src = "api"
    /\ hourly_dataframe["dashboard"].src = "api"
    /\ sweeps["dashboard"] = 0

\* The units and the range of temperature_2m_max the claim C17 gives for a
\* valid unit system, in thousandths.
C17_Profile(unit) ==
    IF unit = "imperial"
    THEN [units |-> <<"fahrenheit", "mph", "inch">>, lo |-> 60000, hi |-> 90000]
    ELSE [units |-> <<"celsius", "kmh", "mm">>, lo |-> 15000, hi |-> 32000]

\* C17: for a valid unit system everything derived from it agrees: the units
\* of the provider request, the ranges of the fallback and the unit system in
\* the key of the entries written; no frame or entry mixes the two systems.
C17_UnitsAgree ==
    /\ \A p \in Procs :
        unit_system[p] \in {"imperial", "metric"} =>
            /\ \A df \in {daily_dataframe[p], hourly_dataframe[p]} :
                  df.src \in {"api", "synth"} =>
                      df.units = C17_Profile(unit_system[p]).units
            /\ (Fetching(p) /\ daily_dataframe[p].src = "synth") =>
                  /\ daily_dataframe[p].val >= C17_Profile(unit_system[p]).lo
                  /\ daily_dataframe[p].val <= C17_Profile(unit_system[p]).hi
    /\ \A n \in DOMAIN files :
        n[1] \in {"imperial", "metric"} =>
            /\ files[n].units = C17_Profile(n[1]).units
            /\ files[n].src = "synth" =>
                  /\ ParseCell(files[n].text) >= C17_Profile(n[1]).lo
                  /\ ParseCell(files[n].text) <= C17_Profile(n[1]).hi

\* An imperial entry fetched from the provider and a metric entry written by
\* the fallback are on disk together.
C17_Witness ==
    \E n, m \in DOMAIN files :
        /\ n[1] = "imperial" /\ files[n].src = "api" /\ files[n].complete
        /\ m[1] = "metric" /\ files[m].src = "synth" /\ files[m].complete

\* C18: the date the callbacks look entries up under equals the date
\* get_weather_data saves under: a fetch a callback starts saves under the
\* date the callback looked up, and with the two entries of (now, unit) saved
\* by a successful fetch, update_dashboard(unit) takes the cache branch, also
\* in a process started on an earlier day.
C18_LookupDateIsSaveDate ==
    [][/\ \A p \in Callbacks : GwdEnter(p) => gwd_today'[p] = today
       /\ \A unit \in UnitSystems :
            (update_dashboard(unit) /\ SavedPair(unit, now))
                => pc'["dashboard"] = "load_daily"]_vars

\* C19: the sweep that follows a fresh fetch deletes none of the entries that
\* fetch has written, also when the date changes between the read of the
\* date in get_weather_data and the read in cleanup_old_data_files.
C19_SweepKeepsFreshEntries ==
    [][\A p \in Procs :
          (cleanup_old_data_files(p) /\ Fetching(p)) =>
              \A gran \in {"daily", "hourly"} :
                  exists(CsvName(unit_system[p], gran, gwd_today[p])) =>
                      CsvName(unit_system[p], gran, gwd_today[p]) \in DOMAIN files']_vars

\* C20: a daily entry holding synthetic data never coexists with an hourly
\* entry of the same date and unit system, and update_dashboard never loads
\* synthetic daily data from the cache, however the fetches of the two
\* callbacks interleave and whichever of their provider calls fail.
C20_NoSyntheticDailyBesideHourly ==
    /\ \A unit \in UnitSystems : \A d \in Days :
        ~(/\ exists(CsvName(unit, "daily", d))
          /\ files[CsvName(unit, "daily", d)].src = "synth"
          /\ exists(CsvName(unit, "hourly", d)))
    /\ ~Fetching("dashboard") => daily_dataframe["dashboard"].src # "synth"

====
